---- MODULE Spec2Model ----
(***************************************************************************)
(* Vera meal tracker: the "Smart Saver" analysis cache.                    *)
(*                                                                         *)
(*   analyzeFood          src/vera/src/app/actions/analyzeFood.ts          *)
(*   cache store access   src/vera/src/lib/ai/cache.ts                     *)
(*   provider chain       src/vera/src/lib/ai/gemini.ts (client section)   *)
(*   food_cache table     src/vera/supabase/food-cache-schema.sql          *)
(*                                                                         *)
(* Each request runs analyzeFood as a sequence of steps, one per await     *)
(* (store round trip or provider call) on the shared food_cache table.     *)
(* Under Spec one caller makes its requests one after the other.           *)
(***************************************************************************)
EXTENDS Integers, Sequences, FiniteSets, TLC

(***************************************************************************)
(* JavaScript values.  A value is a record [k, n, s]: k is its kind, n the *)
(* integer part of a number, s the characters of a string.  A "frac" is a  *)
(* number that is not an integer (n + 1/2).  A string is a sequence of     *)
(* character tokens.                                                       *)
(***************************************************************************)
Undefined == [k |-> "undefined", n |-> 0, s |-> <<>>]

Null == [k |-> "null", n |-> 0, s |-> <<>>]

Num(i) == [k |-> "int", n |-> i, s |-> <<>>]

Frac(i) == [k |-> "frac", n |-> i, s |-> <<>>]

Str(t) == [k |-> "string", n |-> 0, s |-> t]

\* An opaque one-token string (an enumeration tag, a tip, a name).
W(w) == Str(<<w>>)

\* Boolean(v): undefined, null, 0 and "" are falsy.
Truthy(v) ==
    \/ v.k = "int" /\ v.n # 0
    \/ v.k = "frac"
    \/ v.k = "string" /\ v.s # <<>>

\* typeof v === "number"
IsNumber(v) == v.k \in {"int", "frac"}

\* a || b
Or(a, b) == IF Truthy(a) THEN a ELSE b

\* A value as the database returns it: a missing member reads as NULL.
Nullish(v) == v.k \in {"undefined", "null"}

(***************************************************************************)
(* Characters.  \s matches the whitespace tokens, \w the ASCII word        *)
(* characters [A-Za-z0-9_]; every other token (punctuation, a letter of    *)
(* another script) matches [^\w\s].                                        *)
(***************************************************************************)
Whitespace == {" ", "\t"}

LowerCase == {"a", "b", "d", "i", "l"}

UpperCase == {"A", "B", "D", "I", "L"}

Digits == {"0", "1"}

WordChars == LowerCase \cup UpperCase \cup Digits \cup {"_"}

\* String.prototype.toLowerCase, one character.
ToLowerChar(c) ==
    CASE c = "A" -> "a"
      [] c = "B" -> "b"
      [] c = "D" -> "d"
      [] c = "I" -> "i"
      [] c = "L" -> "l"
      [] OTHER -> c

ToLowerCase(t) == [i \in 1..Len(t) |-> ToLowerChar(t[i])]

RECURSIVE TrimStart(_)
TrimStart(t) ==
    IF t # <<>> /\ Head(t) \in Whitespace THEN TrimStart(Tail(t)) ELSE t

RECURSIVE TrimEnd(_)
TrimEnd(t) ==
    IF t # <<>> /\ t[Len(t)] \in Whitespace
    THEN TrimEnd(SubSeq(t, 1, Len(t) - 1))
    ELSE t

\* String.prototype.trim
Trim(t) == TrimEnd(TrimStart(t))

\* .replace(/\s+/g, " "): every maximal run of whitespace becomes one space.
RECURSIVE CollapseSpaces(_)
CollapseSpaces(t) ==
    IF t = <<>> THEN <<>>
    ELSE IF Head(t) \in Whitespace
         THEN <<" ">> \o CollapseSpaces(TrimStart(t))
         ELSE <<Head(t)>> \o CollapseSpaces(Tail(t))

\* .replace(/[^\w\s]/g, ""): drop what is neither a word character nor whitespace.
KeepWordOrSpace(c) == c \in WordChars \/ c \in Whitespace

StripPunctuation(t) == SelectSeq(t, KeepWordOrSpace)

\* The normalisation of generateTextHash, in the order the code applies it.
Normalize(t) == StripPunctuation(CollapseSpaces(Trim(ToLowerCase(t))))

(***************************************************************************)
(* Fingerprints.  createHash("md5") is taken as injective on the strings   *)
(* it is given, so a digest is represented by the string it digests: the   *)
(* type tag and the parts that are concatenated into it.                   *)
(***************************************************************************)
NoFile ==
    [present |-> FALSE, size |-> 0, head |-> 0, rest |-> 0, mime |-> "",
     readable |-> TRUE]

\* A File: its byte length, its first 2048 bytes, the bytes after them, its type,
\* and whether its bytes can be read (arrayBuffer() resolves).
File(size, head, rest, mime, readable) ==
    [present |-> TRUE, size |-> size, head |-> head, rest |-> rest, mime |-> mime,
     readable |-> readable]

generateTextHash(text) ==
    [tag |-> "text", text |-> Normalize(text), size |-> 0, head |-> 0]

generateImageHash(file) ==
    [tag |-> "image", text |-> <<>>, size |-> file.size, head |-> file.head]

generateCombinedHash(text, file) ==
    IF file.present
    THEN [tag |-> "combined", text |-> generateTextHash(text).text,
          size |-> generateImageHash(file).size,
          head |-> generateImageHash(file).head]
    ELSE generateTextHash(text)

(***************************************************************************)
(* The food_cache table.  A row carries every column of the schema.  The   *)
(* client serialises the row it sends with JSON.stringify, which leaves    *)
(* out members whose value is undefined; the upsert (on_conflict =         *)
(* query_hash, merge-duplicates) inserts the row with the column defaults  *)
(* for the columns left out, or, when a row with that query_hash exists,   *)
(* sets on it exactly the columns that were sent.                          *)
(***************************************************************************)
NutritionColumns ==
    {"food_name", "calories", "protein", "carbs", "fats", "fiber",
     "portion_size", "portion_grams", "health_score", "health_tip",
     "cooking_method", "cuisine_type"}

SentColumns ==
    {"query_hash", "query_type", "query_text", "ai_provider", "hit_count",
     "last_used_at"} \cup NutritionColumns

HealthScores == {W("excellent"), W("good"), W("moderate"), W("indulgent")}

QueryTypes == {"text", "image", "combined"}

\* INTEGER column: NULL or an integer; NOT NULL forbids NULL and a missing value.
IsInteger(v) == v.k = "int"

IntegerOrNull(v) == IsInteger(v) \/ Nullish(v)

\* The constraints of CREATE TABLE food_cache on a row proposed for insertion.
SchemaAccepts(sent) ==
    /\ sent.query_type \in QueryTypes
    /\ ~Nullish(sent.food_name)
    /\ IsInteger(sent.calories)
    /\ IsInteger(sent.protein)
    /\ IsInteger(sent.carbs)
    /\ IsInteger(sent.fats)
    /\ IntegerOrNull(sent.fiber)
    /\ IntegerOrNull(sent.portion_grams)
    /\ Nullish(sent.health_score) \/ sent.health_score \in HealthScores

\* The members JSON.stringify keeps.
Serialized(sent) ==
    {c \in SentColumns : c \in NutritionColumns => sent[c] # Undefined}

\* A column that was not sent takes NULL on insert (no nutrition column but
\* fiber has a default, and fiber is always sent).
InsertValue(sent, c) == IF c \in Serialized(sent) THEN sent[c] ELSE Null

\* The row a conflict-free upsert inserts: id, created_at from their defaults.
InsertedRow(sent, id, t) ==
    [c \in SentColumns |-> InsertValue(sent, c)]
        @@ [id |-> id, created_at |-> t]

\* ON CONFLICT (query_hash) DO UPDATE SET c = EXCLUDED.c, for the columns sent.
MergedRow(old, sent) ==
    [c \in DOMAIN old |-> IF c \in Serialized(sent) THEN sent[c] ELSE old[c]]

\* Mutant: the rows are not matched on query_hash, so no row is ever found.
RowsOfNoMatch(rows, hash) == {r \in rows : r.query_hash = hash /\ r.id = 0}

RowsOf(rows, hash) == {r \in rows : r.query_hash = hash}

\* supabase.from("food_cache").upsert(sent, {onConflict: "query_hash"})
UpsertRows(rows, sent, id, t) ==
    IF RowsOf(rows, sent.query_hash) = {}
    THEN rows \cup {InsertedRow(sent, id, t)}
    ELSE {IF r.query_hash = sent.query_hash THEN MergedRow(r, sent) ELSE r : r \in rows}

\* Mutant: the update is not narrowed to the row read: every row is counted.
UpdateRowsAll(rows, id, hits, t) ==
    {[r EXCEPT !.hit_count = hits, !.last_used_at = t] : r \in rows}

\* .update({hit_count, last_used_at}).eq("id", id)
UpdateRows(rows, id, hits, t) ==
    {IF r.id = id THEN [r EXCEPT !.hit_count = hits, !.last_used_at = t] ELSE r
        : r \in rows}

(***************************************************************************)
(* Requests, provider replies and results.                                 *)
(***************************************************************************)
\* AnalyzeFoodInput
Input(imageFile, imageUrl, text, audioTranscript, mealType, saveToLog, skipCache) ==
    [imageFile |-> imageFile, imageUrl |-> imageUrl, text |-> text,
     audioTranscript |-> audioTranscript, mealType |-> mealType,
     saveToLog |-> saveToLog, skipCache |-> skipCache]

\* NutritionResult as JSON.parse delivers it: any member may be missing.
Nutrition(name, calories, protein, carbs, fats, fiber, portionSize, portionGrams, healthScore, healthTip, cookingMethod, cuisineType, confidence) ==
    [name |-> name, calories |-> calories, protein |-> protein, carbs |-> carbs,
     fats |-> fats, fiber |-> fiber, portionSize |-> portionSize,
     portionGrams |-> portionGrams, healthScore |-> healthScore,
     healthTip |-> healthTip, cookingMethod |-> cookingMethod,
     cuisineType |-> cuisineType, confidence |-> confidence]

NoNutrition ==
    Nutrition(Undefined, Undefined, Undefined, Undefined, Undefined, Undefined,
              Undefined, Undefined, Undefined, Undefined, Undefined, Undefined,
              Undefined)

\* AIAnalysisResult; hasData is FALSE when data is undefined.
AIResult(success, hasData, d, provider, error) ==
    [success |-> success, hasData |-> hasData, data |-> d, provider |-> provider,
     error |-> error]

NoAIResult == AIResult(FALSE, FALSE, NoNutrition, "undefined", <<>>)

\* AnalyzeFoodResult; a member that is not set reads "undefined" (logId: 0).
Outcome(success, error, hasData, d, provider, fromCache, logId) ==
    [success |-> success, error |-> error, hasData |-> hasData, data |-> d,
     provider |-> provider, fromCache |-> fromCache, logId |-> logId]

NoOutcome == Outcome(FALSE, <<>>, FALSE, NoNutrition, "undefined", "undefined", 0)

ErrInvalidInput == <<"Please provide an image, text, or voice description">>

ErrInvalidData == <<"Invalid nutritional data received">>

ErrDefault == <<"Failed to analyze food">>

\* Mutant: the catch clause returns a failure without a message.
ErrCaughtEmpty == <<>>

ErrCaught == <<"Failed to analyze food. Please try again.">>

ErrBothFailed(groqError, geminiError) ==
    <<"Both AI providers failed. Groq: ">> \o groqError \o <<". Gemini: ">>
        \o geminiError

\* [input.text, input.audioTranscript].filter(Boolean).join(" ").trim()
JoinTruthy(a, b) ==
    IF Truthy(a) /\ Truthy(b) THEN a.s \o <<" ">> \o b.s
    ELSE IF Truthy(a) THEN a.s
    ELSE IF Truthy(b) THEN b.s
    ELSE <<>>

QueryText(input) == Trim(JoinTruthy(input.text, input.audioTranscript))

\* Mutant: the input validation lets every request through.
HasContentAlways(input) == input.saveToLog \in BOOLEAN

\* The validation at the head of analyzeFood.
HasContent(input) ==
    \/ input.imageFile.present
    \/ Truthy(input.imageUrl)
    \/ Truthy(input.text)
    \/ Truthy(input.audioTranscript)

\* Mutant: the query text is not trimmed before it is tested.
QueryTypeNoTrim(input) ==
    IF input.imageFile.present /\ JoinTruthy(input.text, input.audioTranscript) # <<>>
    THEN "combined"
    ELSE IF input.imageFile.present THEN "image"
    ELSE "text"

QueryType(input) ==
    IF input.imageFile.present /\ QueryText(input) # <<>> THEN "combined"
    ELSE IF input.imageFile.present THEN "image"
    ELSE "text"

QueryHash(input) ==
    IF input.imageFile.present /\ QueryText(input) # <<>>
    THEN generateCombinedHash(QueryText(input), input.imageFile)
    ELSE IF input.imageFile.present THEN generateImageHash(input.imageFile)
    ELSE generateTextHash(QueryText(input))

\* textPrompt: the lines added for the meal type, the text and the transcript,
\* or the generic instruction when there is none and an image is given.
TextPrompt(input) ==
    [mealType |-> IF Truthy(input.mealType) THEN input.mealType ELSE Undefined,
     text |-> IF Truthy(input.text) THEN input.text ELSE Undefined,
     voice |-> IF Truthy(input.audioTranscript) THEN input.audioTranscript
               ELSE Undefined,
     generic |-> /\ ~Truthy(input.mealType)
                 /\ ~Truthy(input.text)
                 /\ ~Truthy(input.audioTranscript)
                 /\ input.imageFile.present]

\* imageBase64 and imageMimeType: the whole file, and its type or "image/jpeg".
ImageArgs(input) ==
    IF input.imageFile.present
    THEN [present |-> TRUE, size |-> input.imageFile.size,
          head |-> input.imageFile.head, rest |-> input.imageFile.rest,
          mime |-> IF input.imageFile.mime = "" THEN "image/jpeg"
                   ELSE input.imageFile.mime]
    ELSE [present |-> FALSE, size |-> 0, head |-> 0, rest |-> 0, mime |-> ""]

\* Mutant: the validation looks at the name only.
ValidNutritionNameOnly(d) == Truthy(d.name)

\* The post-hoc validation of the chain's data.
ValidNutrition(d) == Truthy(d.name) /\ IsNumber(d.calories)

\* The object saveToCach hands to upsert.
SentRow(hash, type, text, d, provider, t) ==
    [query_hash |-> hash,
     query_type |-> type,
     query_text |-> text,
     food_name |-> d.name,
     calories |-> d.calories,
     protein |-> d.protein,
     carbs |-> d.carbs,
     fats |-> d.fats,
     fiber |-> Or(d.fiber, Num(0)),
     portion_size |-> d.portionSize,
     portion_grams |-> d.portionGrams,
     health_score |-> d.healthScore,
     health_tip |-> d.healthTip,
     cooking_method |-> d.cookingMethod,
     cuisine_type |-> d.cuisineType,
     ai_provider |-> provider,
     hit_count |-> 1,
     last_used_at |-> t]

QueryTextLimit == 500

\* queryText.slice(0, 500)
Slice(t, n) == SubSeq(t, 1, IF Len(t) < n THEN Len(t) ELSE n)

\* The queryText argument of saveToCach: queryText || result.data.name
CacheText(text, d) == IF text # <<>> THEN text ELSE d.name.s

\* CachedFood, as getCachedResult builds it from the row the select returned.
CachedFood(row) ==
    [id |-> row.id,
     queryHash |-> row.query_hash,
     foodName |-> row.food_name,
     calories |-> row.calories,
     protein |-> row.protein,
     carbs |-> row.carbs,
     fats |-> row.fats,
     fiber |-> Or(row.fiber, Num(0)),
     portionSize |-> row.portion_size,
     portionGrams |-> row.portion_grams,
     healthScore |-> row.health_score,
     healthTip |-> row.health_tip,
     cookingMethod |-> row.cooking_method,
     cuisineType |-> row.cuisine_type,
     aiProvider |-> row.ai_provider,
     hitCount |-> row.hit_count]

\* Mutant: the confidence of a cache hit is not forced to "high".
cachedToNutritionMedium(c) ==
    [name |-> c.foodName, calories |-> c.calories, protein |-> c.protein,
     carbs |-> c.carbs, fats |-> c.fats, fiber |-> c.fiber,
     portionSize |-> Or(c.portionSize, W("medium")),
     portionGrams |-> Or(c.portionGrams, Num(100)),
     healthScore |-> Or(c.healthScore, W("good")),
     healthTip |-> Or(c.healthTip, Str(<<>>)),
     cookingMethod |-> c.cookingMethod, cuisineType |-> c.cuisineType,
     confidence |-> W("medium")]

DefaultPortionGrams == 100

cachedToNutrition(c) ==
    Nutrition(c.foodName, c.calories, c.protein, c.carbs, c.fats, c.fiber,
              Or(c.portionSize, W("medium")),
              Or(c.portionGrams, Num(DefaultPortionGrams)),
              Or(c.healthScore, W("good")),
              Or(c.healthTip, Str(<<>>)),
              c.cookingMethod, c.cuisineType, W("high"))

\* Mutant: the counter is decremented.
BumpedHitCountDown(row) == (IF row.hit_count # 0 THEN row.hit_count ELSE 0) - 1

\* Mutant: the count that was read is written back.
BumpedHitCountStale(row) == IF row.hit_count # 0 THEN row.hit_count ELSE 0

\* (data.hit_count || 0) + 1
BumpedHitCount(row) == (IF row.hit_count # 0 THEN row.hit_count ELSE 0) + 1

(***************************************************************************)
(* Bounds and the values the requests and the providers are drawn from.    *)
(***************************************************************************)
MaxCalls == 3

MaxClock == 1

Procs == {"p1", "p2"}

TextIdli == Str(<<"i", "d", "l", "i">>)

TextIdliLoud == Str(<<" ", "I", "d", "l", "i", "!">>)

Photo == File(4096, 7, 1, "image/png", TRUE)

ReqNothing == Input(NoFile, Undefined, Undefined, Undefined, Undefined, FALSE, FALSE)

ReqIdli == Input(NoFile, Undefined, TextIdli, Undefined, Undefined, FALSE, FALSE)

ReqIdliFresh == Input(NoFile, Undefined, TextIdli, Undefined, Undefined, FALSE, TRUE)

ReqIdliLoud ==
    Input(NoFile, Undefined, TextIdliLoud, Undefined, W("breakfast"), TRUE, FALSE)

ReqPhoto == Input(Photo, Undefined, Undefined, Undefined, Undefined, FALSE, FALSE)

\* An image whose bytes cannot be read: arrayBuffer() rejects.
Unreadable == File(4096, 7, 1, "image/png", FALSE)

ReqUnreadable ==
    Input(Unreadable, Undefined, TextIdli, Undefined, Undefined, FALSE, FALSE)

Requests ==
    {ReqNothing, ReqIdli, ReqIdliFresh, ReqIdliLoud, ReqPhoto, ReqUnreadable}

\* The payload of the spec's example, with both optional tags.
Idli ==
    Nutrition(W("Idli"), Num(39), Num(2), Num(8), Num(0), Num(1), W("medium"),
              Num(30), W("excellent"), W("Pair with sambar"), W("steamed"),
              W("South Indian"), W("medium"))

\* A well-typed payload: portion mass 0, no cooking method (it is optional).
Water ==
    Nutrition(W("Water"), Num(0), Num(0), Num(0), Num(0), Num(0), W("small"),
              Num(0), W("excellent"), W("Drink more"), Undefined, W("none"),
              W("high"))

\* Parsed, but without a name.
Nameless ==
    Nutrition(Str(<<>>), Num(39), Num(2), Num(8), Num(0), Num(1), W("medium"),
              Num(30), W("good"), W("tip"), Undefined, Undefined, W("low"))

\* Parsed, but calories is a string.
CaloriesText ==
    Nutrition(W("Idli"), W("39 kcal"), Num(2), Num(8), Num(0), Num(1),
              W("medium"), Num(30), W("good"), W("tip"), Undefined, Undefined,
              W("low"))

\* Name and calories only: passes the validation, protein is missing.
Sparse ==
    Nutrition(W("Vada"), Num(97), Undefined, Undefined, Undefined, Undefined,
              Undefined, Undefined, Undefined, Undefined, Undefined, Undefined,
              Undefined)

Payloads == {Idli, Water, Nameless, CaloriesText, Sparse}

\* What a provider call comes to: parsed data, or an error (API error, empty
\* response or unparsable reply: all thrown and caught alike).
Reply(ok, d, error) == [ok |-> ok, data |-> d, error |-> error]

ProviderErrors == {<<"Error: Empty response">>}

Replies ==
    {Reply(TRUE, d, <<>>) : d \in Payloads}
        \cup {Reply(FALSE, NoNutrition, e) : e \in ProviderErrors}

(***************************************************************************)
(* State.                                                                  *)
(***************************************************************************)
VARIABLES
    store,       \* the rows of food_cache
    nextId,      \* the next id gen_random_uuid() hands out
    foodLogs,    \* the number of rows of food_logs
    now,         \* the clock new Date() and NOW() read
    ncalls,      \* analyzeFood calls made so far
    pc,          \* where each request stands in analyzeFood
    req,         \* input
    queryText,
    queryHash,
    queryType,
    data,        \* getCachedResult: the row the select returned (none: {})
    cached,      \* the CachedFood getCachedResult returned (null: {})
    groqResult,
    result,      \* what analyzeWithFallback returned
    outcome,     \* what analyzeFood returned last (or is about to return)
    obs,         \* what the call in progress did: provider calls, store calls
    before,      \* the store when the call was made
    prev,        \* each process's previous call, as it ended
    similar,     \* findSimilarCached: the last call's arguments and result
    search       \* searchFood: the query and what was returned last

vars ==
    <<store, nextId, foodLogs, now, ncalls, pc, req, queryText, queryHash,
      queryType, data, cached, groqResult, result, outcome, obs, before, prev,
      similar, search>>

NoHash == [tag |-> "none", text |-> <<>>, size |-> 0, head |-> 0]

NoObs == [chain |-> 0, providerCalls |-> <<>>, storeCalls |-> <<>>]

\* What is kept of a call when the same process makes its next one.
Summary(input, hash, out, o) ==
    [req |-> input, hash |-> hash, outcome |-> out, obs |-> o]

NoSummary == Summary(ReqNothing, NoHash, NoOutcome, NoObs)

\* No call of findSimilarCached yet.
NoSimilar ==
    [called |-> FALSE, query |-> <<>>, limit |-> 0, read |-> {}, ok |-> FALSE,
     rows |-> <<>>]

\* No call of searchFood yet.
NoSearch ==
    [called |-> FALSE, query |-> <<>>, before |-> {}, chain |-> 0, prompts |-> <<>>,
     success |-> FALSE, suggestions |-> <<>>]

Init ==
    /\ store = {}
    /\ nextId = 1
    /\ foodLogs = 0
    /\ now = 0
    /\ ncalls = 0
    /\ pc = [p \in Procs |-> "idle"]
    /\ req = [p \in Procs |-> ReqNothing]
    /\ queryText = [p \in Procs |-> <<>>]
    /\ queryHash = [p \in Procs |-> NoHash]
    /\ queryType = [p \in Procs |-> "text"]
    /\ data = [p \in Procs |-> {}]
    /\ cached = [p \in Procs |-> {}]
    /\ groqResult = [p \in Procs |-> NoAIResult]
    /\ result = [p \in Procs |-> NoAIResult]
    /\ outcome = [p \in Procs |-> NoOutcome]
    /\ obs = [p \in Procs |-> NoObs]
    /\ before = [p \in Procs |-> {}]
    /\ prev = [p \in Procs |-> NoSummary]
    /\ similar = [p \in Procs |-> NoSimilar]
    /\ search = [p \in Procs |-> NoSearch]

(***************************************************************************)
(* analyzeFood, one step per await.                                        *)
(***************************************************************************)
\* The call goes on at `next` with `out` as its (pending) return value; at
\* "idle" it has returned `out`.
Goto(p, next, out, o) ==
    /\ pc' = [pc EXCEPT ![p] = next]
    /\ outcome' = [outcome EXCEPT ![p] = out]
    /\ obs' = [obs EXCEPT ![p] = o]

Failure(error, provider) ==
    Outcome(FALSE, error, FALSE, NoNutrition, provider, "undefined", 0)

Success(d, provider, fromCache) ==
    Outcome(TRUE, <<>>, TRUE, d, provider, fromCache, 0)

\* Mutant: skipCache is not looked at, the cache is always queried.
CallAlwaysLookup(p, input) ==
    /\ pc[p] = "idle"
    /\ ncalls < MaxCalls
    /\ ncalls' = ncalls + 1
    /\ prev' = [prev EXCEPT ![p] =
                    Summary(req[p], queryHash[p], outcome[p], obs[p])]
    /\ req' = [req EXCEPT ![p] = input]
    /\ before' = [before EXCEPT ![p] = store]
    /\ data' = [data EXCEPT ![p] = {}]
    /\ cached' = [cached EXCEPT ![p] = {}]
    /\ groqResult' = [groqResult EXCEPT ![p] = NoAIResult]
    /\ result' = [result EXCEPT ![p] = NoAIResult]
    /\ queryText' = [queryText EXCEPT ![p] =
                        IF HasContent(input) THEN QueryText(input) ELSE <<>>]
    /\ IF ~HasContent(input)
       THEN /\ Goto(p, "idle", Failure(ErrInvalidInput, "undefined"), NoObs)
            /\ queryHash' = [queryHash EXCEPT ![p] = NoHash]
            /\ UNCHANGED queryType
       ELSE IF input.imageFile.present /\ ~input.imageFile.readable
       THEN \* generateImageHash rejects: caught by the try of analyzeFood
            /\ Goto(p, "idle", Failure(ErrCaught, "undefined"), NoObs)
            /\ queryHash' = [queryHash EXCEPT ![p] = NoHash]
            /\ UNCHANGED queryType
       ELSE /\ queryHash' = [queryHash EXCEPT ![p] = QueryHash(input)]
            /\ queryType' = [queryType EXCEPT ![p] = QueryType(input)]
            /\ Goto(p, "select", NoOutcome, NoObs)
    /\ UNCHANGED <<similar, search, store, nextId, foodLogs, now>>

\* Entry: validation, query text and fingerprint, then the cache unless skipCache.
Call(p, input) ==
    /\ pc[p] = "idle"
    /\ ncalls < MaxCalls
    /\ ncalls' = ncalls + 1
    /\ prev' = [prev EXCEPT ![p] =
                    Summary(req[p], queryHash[p], outcome[p], obs[p])]
    /\ req' = [req EXCEPT ![p] = input]
    /\ before' = [before EXCEPT ![p] = store]
    /\ data' = [data EXCEPT ![p] = {}]
    /\ cached' = [cached EXCEPT ![p] = {}]
    /\ groqResult' = [groqResult EXCEPT ![p] = NoAIResult]
    /\ result' = [result EXCEPT ![p] = NoAIResult]
    /\ queryText' = [queryText EXCEPT ![p] =
                        IF HasContent(input) THEN QueryText(input) ELSE <<>>]
    /\ IF ~HasContent(input)
       THEN /\ Goto(p, "idle", Failure(ErrInvalidInput, "undefined"), NoObs)
            /\ queryHash' = [queryHash EXCEPT ![p] = NoHash]
            /\ UNCHANGED queryType
       ELSE IF input.imageFile.present /\ ~input.imageFile.readable
       THEN \* generateImageHash rejects: caught by the try of analyzeFood
            /\ Goto(p, "idle", Failure(ErrCaught, "undefined"), NoObs)
            /\ queryHash' = [queryHash EXCEPT ![p] = NoHash]
            /\ UNCHANGED queryType
       ELSE /\ queryHash' = [queryHash EXCEPT ![p] = QueryHash(input)]
            /\ queryType' = [queryType EXCEPT ![p] = QueryType(input)]
            /\ Goto(p, IF input.skipCache THEN "groq" ELSE "select", NoOutcome, NoObs)
    /\ UNCHANGED <<similar, search, store, nextId, foodLogs, now>>

StoreCall(o, op, hash, ok) ==
    [o EXCEPT !.storeCalls = Append(@, [op |-> op, hash |-> hash, ok |-> ok])]

\* getCachedResult, first half: the select ... .eq("query_hash", h).single().
\* An error (or createClient throwing) and "not exactly one row" both give null.
Select(p, ok) ==
    /\ pc[p] = "select"
    /\ LET found == RowsOf(store, queryHash[p])
           hit == ok /\ Cardinality(found) = 1
       IN  /\ data' = [data EXCEPT ![p] = IF hit THEN found ELSE {}]
           /\ Goto(p, IF hit THEN "update" ELSE "groq", outcome[p],
                   StoreCall(obs[p], "select", queryHash[p], ok))
    /\ UNCHANGED <<similar, search, store, nextId, foodLogs, now, ncalls, req, queryText,
                   queryHash, queryType, cached, groqResult, result, before, prev>>

\* getCachedResult, second half: the update of hit_count and last_used_at by
\* id (its result is not looked at), then the hit branch of analyzeFood.
Update(p, ok) ==
    /\ pc[p] = "update"
    /\ LET row == CHOOSE r \in data[p] : TRUE
           c == CachedFood(row)
       IN  /\ store' = IF ok
                       THEN UpdateRows(store, row.id, BumpedHitCount(row), now)
                       ELSE store
           /\ cached' = [cached EXCEPT ![p] = {c}]
           /\ Goto(p, IF req[p].saveToLog THEN "log" ELSE "idle",
                   Success(cachedToNutrition(c), c.aiProvider, "true"),
                   StoreCall(obs[p], "update", queryHash[p], ok))
    /\ UNCHANGED <<similar, search, nextId, foodLogs, now, ncalls, req, queryText, queryHash,
                   queryType, data, groqResult, result, before, prev>>

\* A provider call: its arguments and whether it succeeded.
ProviderCall(o, provider, prompt, image, reply) ==
    [o EXCEPT !.providerCalls =
        Append(@, [provider |-> provider, prompt |-> prompt, image |-> image,
                   ok |-> reply.ok, error |-> reply.error])]

\* Mutant: the fallback's success carries the primary's tag.
GeminiReturnTaggedGroq(reply) ==
    IF reply.ok THEN [success |-> TRUE, hasData |-> TRUE, data |-> reply.data,
                      provider |-> "groq", error |-> <<>>]
    ELSE [success |-> FALSE, hasData |-> FALSE, data |-> NoNutrition,
          provider |-> "gemini", error |-> reply.error]

\* What analyzeWithGroq and analyzeWithGemini return.
GroqReturn(reply) ==
    IF reply.ok THEN AIResult(TRUE, TRUE, reply.data, "groq", <<>>)
    ELSE AIResult(FALSE, FALSE, NoNutrition, "groq", reply.error)

GeminiReturn(reply) ==
    IF reply.ok THEN AIResult(TRUE, TRUE, reply.data, "gemini", <<>>)
    ELSE AIResult(FALSE, FALSE, NoNutrition, "gemini", reply.error)

\* The last return of analyzeWithFallback.
BothFailed(groqError, geminiError) ==
    AIResult(FALSE, FALSE, NoNutrition, "undefined",
             ErrBothFailed(groqError, geminiError))

\* Mutant: the chain's failure is not looked at before the data is validated.
AfterChainUnchecked(p, res, o) ==
    IF ~(Truthy(res.data.name) /\ IsNumber(res.data.calories))
    THEN /\ pc' = [pc EXCEPT ![p] = "idle"]
         /\ outcome' = [outcome EXCEPT ![p] =
                            [success |-> FALSE, error |-> ErrInvalidData,
                             hasData |-> FALSE, data |-> NoNutrition,
                             provider |-> "undefined", fromCache |-> "undefined",
                             logId |-> 0]]
         /\ obs' = [obs EXCEPT ![p] = o]
    ELSE /\ pc' = [pc EXCEPT ![p] = "upsert"]
         /\ obs' = [obs EXCEPT ![p] = o]
         /\ UNCHANGED outcome

\* What analyzeFood does with the result of analyzeWithFallback.
AfterChain(p, res, o) ==
    IF ~res.success \/ ~res.hasData
    THEN Goto(p, "idle",
              Failure(IF res.error # <<>> THEN res.error ELSE ErrDefault, res.provider),
              o)
    ELSE IF ~ValidNutrition(res.data)
    THEN Goto(p, "idle", Failure(ErrInvalidData, "undefined"), o)
    ELSE Goto(p, "upsert", outcome[p], o)

\* analyzeWithFallback is entered: analyzeWithGroq, and on success its return.
Groq(p, reply) ==
    /\ pc[p] = "groq"
    /\ LET r == GroqReturn(reply)
           o == ProviderCall([obs[p] EXCEPT !.chain = @ + 1], "groq",
                             TextPrompt(req[p]), ImageArgs(req[p]), reply)
       IN  /\ groqResult' = [groqResult EXCEPT ![p] = r]
           /\ IF r.success
              THEN /\ result' = [result EXCEPT ![p] = r]
                   /\ AfterChain(p, r, o)
              ELSE /\ Goto(p, "gemini", outcome[p], o)
                   /\ UNCHANGED result
    /\ UNCHANGED <<similar, search, store, nextId, foodLogs, now, ncalls, req, queryText,
                   queryHash, queryType, data, cached, before, prev>>

\* The fallback: analyzeWithGemini with the same arguments, and the return of
\* analyzeWithFallback.
Gemini(p, reply) ==
    /\ pc[p] = "gemini"
    /\ LET g == GeminiReturn(reply)
           r == IF g.success THEN g ELSE BothFailed(groqResult[p].error, g.error)
           o == ProviderCall(obs[p], "gemini", TextPrompt(req[p]),
                             ImageArgs(req[p]), reply)
       IN  /\ result' = [result EXCEPT ![p] = r]
           /\ AfterChain(p, r, o)
    /\ UNCHANGED <<similar, search, store, nextId, foodLogs, now, ncalls, req, queryText,
                   queryHash, queryType, data, cached, groqResult, before, prev>>

\* Mutant: a failed cache write fails the request.
UpsertSurfacing(p, ok) ==
    /\ pc[p] = "upsert"
    /\ LET d == result[p].data
           sent == [query_hash |-> queryHash[p], query_type |-> queryType[p],
                    query_text |-> queryText[p], food_name |-> d.name,
                    calories |-> d.calories, protein |-> d.protein,
                    carbs |-> d.carbs, fats |-> d.fats, fiber |-> Or(d.fiber, Num(0)),
                    portion_size |-> d.portionSize, portion_grams |-> d.portionGrams,
                    health_score |-> d.healthScore, health_tip |-> d.healthTip,
                    cooking_method |-> d.cookingMethod,
                    cuisine_type |-> d.cuisineType,
                    ai_provider |-> result[p].provider, hit_count |-> 1,
                    last_used_at |-> now]
           stored == ok /\ SchemaAccepts(sent)
       IN  /\ store' = IF stored THEN UpsertRows(store, sent, nextId, now) ELSE store
           /\ nextId' = IF stored /\ RowsOf(store, queryHash[p]) = {}
                        THEN nextId + 1 ELSE nextId
           /\ pc' = [pc EXCEPT ![p] =
                        IF stored /\ req[p].saveToLog THEN "log" ELSE "idle"]
           /\ outcome' = [outcome EXCEPT ![p] =
                             IF stored
                             THEN Success(d, result[p].provider, "false")
                             ELSE Failure(<<"Failed to save">>, result[p].provider)]
           /\ obs' = [obs EXCEPT ![p] =
                         StoreCall(obs[p], "upsert", queryHash[p], stored)]
    /\ UNCHANGED <<similar, search, foodLogs, now, ncalls, req, queryText, queryHash, queryType,
                   data, cached, groqResult, result, before, prev>>

\* saveToCach: the upsert; an error is logged and the boolean is not looked at.
Upsert(p, ok) ==
    /\ pc[p] = "upsert"
    /\ LET d == result[p].data
           sent == SentRow(queryHash[p], queryType[p],
                           Slice(CacheText(queryText[p], d), QueryTextLimit),
                           d, result[p].provider, now)
           stored == ok /\ SchemaAccepts(sent)
       IN  /\ store' = IF stored THEN UpsertRows(store, sent, nextId, now) ELSE store
           /\ nextId' = IF stored /\ RowsOf(store, queryHash[p]) = {}
                        THEN nextId + 1 ELSE nextId
           /\ Goto(p, IF req[p].saveToLog THEN "log" ELSE "idle",
                   Success(d, result[p].provider, "false"),
                   StoreCall(obs[p], "upsert", queryHash[p], stored))
    /\ UNCHANGED <<similar, search, foodLogs, now, ncalls, req, queryText, queryHash, queryType,
                   data, cached, groqResult, result, before, prev>>

\* saveFoodLog: on success the id of the inserted food_logs row is returned.
SaveFoodLog(p, ok) ==
    /\ pc[p] = "log"
    /\ foodLogs' = IF ok THEN foodLogs + 1 ELSE foodLogs
    /\ Goto(p, "idle", [outcome[p] EXCEPT !.logId = IF ok THEN foodLogs + 1 ELSE 0],
            obs[p])
    /\ UNCHANGED <<similar, search, store, nextId, now, ncalls, req, queryText, queryHash,
                   queryType, data, cached, groqResult, result, before, prev>>

\* Time passes.
Tick ==
    /\ now < MaxClock
    /\ now' = now + 1
    /\ UNCHANGED <<similar, search, store, nextId, foodLogs, ncalls, pc, req, queryText, queryHash,
                   queryType, data, cached, groqResult, result, outcome, obs,
                   before, prev>>

Step(p) ==
    \/ \E ok \in BOOLEAN : Select(p, ok)
    \/ \E ok \in BOOLEAN : Update(p, ok)
    \/ \E reply \in Replies : Groq(p, reply)
    \/ \E reply \in Replies : Gemini(p, reply)
    \/ \E ok \in BOOLEAN : Upsert(p, ok)
    \/ \E ok \in BOOLEAN : SaveFoodLog(p, ok)

\* One request after the other, all made by one caller.
Caller == "p1"

Next ==
    \/ \E input \in Requests : Call(Caller, input)
    \/ Step(Caller)
    \/ Tick

Spec == Init /\ [][Next]_vars

(***************************************************************************)
(* Properties.  Under Spec the requests run one after the other, so        *)
(* prev[Caller] is the call made immediately before the one in progress    *)
(* (or just returned).                                                     *)
(***************************************************************************)
\* A call of p has returned and no new one was made.
Returned(p) == pc[p] = "idle" /\ outcome[p] # NoOutcome

Upserts(o) == SelectSeq(o.storeCalls, LAMBDA c : c.op = "upsert")

Updates(o) == SelectSeq(o.storeCalls, LAMBDA c : c.op = "update")

Selects(o) == SelectSeq(o.storeCalls, LAMBDA c : c.op = "select")

\* The call wrote its fresh result to the store.
Stored(o) == Len(Upserts(o)) = 1 /\ Upserts(o)[1].ok

\* The call's lookup was answered by the store.
Answered(o) == Len(Selects(o)) = 1 /\ Selects(o)[1].ok

\* p has made the same call twice in a row, without skipCache, and the second
\* has returned.
TwiceInARow(p) ==
    /\ Returned(p)
    /\ prev[p].outcome # NoOutcome
    /\ req[p] = prev[p].req
    /\ ~req[p].skipCache

\* C1 as claimed: two identical calls in immediate succession (skipCache=false)
\* enter the provider chain exactly once between them, and the second is served
\* from the cache.
C1_AsClaimed ==
    \A p \in Procs :
        TwiceInARow(p) =>
            /\ prev[p].obs.chain + obs[p].chain = 1
            /\ outcome[p].fromCache = "true"

\* C1, amended: when the first of two identical calls in immediate succession
\* (skipCache=false) returns a fresh success whose cache write is stored, and the
\* store answers the second call's lookup, the provider chain is entered exactly
\* once (by the first call) and the second call is served from the cache.
C1_Idempotent ==
    \A p \in Procs :
        (/\ TwiceInARow(p)
         /\ prev[p].outcome.success
         /\ prev[p].outcome.fromCache = "false"
         /\ Stored(prev[p].obs)
         /\ Answered(obs[p]))
        => /\ prev[p].obs.chain = 1
           /\ obs[p].chain = 0
           /\ obs[p].providerCalls = <<>>
           /\ outcome[p].success
           /\ outcome[p].fromCache = "true"

C1_Witness ==
    /\ TwiceInARow(Caller)
    /\ prev[Caller].outcome.success
    /\ prev[Caller].outcome.fromCache = "false"
    /\ Stored(prev[Caller].obs)
    /\ Answered(obs[Caller])
    /\ outcome[Caller].fromCache = "true"

\* C2: in every run of analyzeWithFallback Groq is called first and exactly once;
\* Gemini is called, at most once and with the same prompt and image, exactly
\* when Groq reported failure; the provider tag of a successful result names the
\* provider whose call succeeded.
C2_ChainOrder ==
    \A p \in Procs :
        LET calls == obs[p].providerCalls
            n == Len(calls)
        IN  /\ obs[p].chain \in {0, 1}
            /\ obs[p].chain = 0 => calls = <<>>
            /\ obs[p].chain = 1 =>
                /\ n \in {1, 2}
                /\ calls[1].provider = "groq"
                /\ n = 2 => /\ calls[2].provider = "gemini"
                            /\ calls[2].prompt = calls[1].prompt
                            /\ calls[2].image = calls[1].image
                            /\ ~calls[1].ok
                /\ pc[p] = "gemini" => n = 1 /\ ~calls[1].ok
                /\ pc[p] # "gemini" =>
                    /\ n = 2 <=> ~calls[1].ok
                    /\ result[p].success <=> calls[n].ok
                    /\ result[p].success => result[p].provider = calls[n].provider

C2_Witness ==
    /\ Returned(Caller)
    /\ Len(obs[Caller].providerCalls) = 2
    /\ obs[Caller].providerCalls[2].ok
    /\ outcome[Caller].success
    /\ outcome[Caller].provider = "gemini"
    /\ req[Caller].imageFile.present

\* The nutrition values C3 lists; a member that is missing and one that is null
\* count as the same.
SameValue(a, b) == a = b \/ (Nullish(a) /\ Nullish(b))

ListedFields ==
    {"name", "calories", "protein", "carbs", "fats", "fiber", "portionSize",
     "portionGrams", "healthScore", "healthTip", "cookingMethod", "cuisineType"}

SameNutrition(a, b) == \A f \in ListedFields : SameValue(a[f], b[f])

\* C3 as claimed: when a fresh call validated a result r and wrote it to the
\* cache, the next identical call (skipCache=false), served from the cache,
\* returns success with fromCache=true and the same nutrition values as r.
C3_AsClaimed ==
    \A p \in Procs :
        (/\ TwiceInARow(p)
         /\ prev[p].outcome.success
         /\ prev[p].outcome.fromCache = "false"
         /\ Stored(prev[p].obs)
         /\ cached[p] # {})
        => /\ outcome[p].success
           /\ outcome[p].fromCache = "true"
           /\ SameNutrition(outcome[p].data, prev[p].outcome.data)

\* C4: when the lookup finds a record (skipCache not set), analyzeFood returns
\* success with fromCache=true, confidence "high" and the provider recorded on
\* the record, and calls no provider during that request.
C4_CacheHit ==
    \A p \in Procs :
        data[p] # {} =>
            /\ ~req[p].skipCache
            /\ pc[p] \in {"update", "log", "idle"}
            /\ obs[p].chain = 0
            /\ obs[p].providerCalls = <<>>
            /\ pc[p] # "update" =>
                /\ outcome[p].success
                /\ outcome[p].hasData
                /\ outcome[p].fromCache = "true"
                /\ outcome[p].data.confidence = W("high")
                /\ \A row \in data[p] : outcome[p].provider = row.ai_provider

C4_Witness ==
    /\ Returned(Caller)
    /\ data[Caller] # {}
    /\ outcome[Caller].fromCache = "true"
    /\ outcome[Caller].provider = "gemini"
    /\ prev[Caller].outcome.data.confidence = W("medium")

\* The request of C5: no image, no text, no transcript.
NothingGiven(input) ==
    /\ input.imageFile = NoFile
    /\ input.imageUrl = Undefined
    /\ input.text = Undefined
    /\ input.audioTranscript = Undefined

\* C5: a call with no image, no text and no transcript returns the InvalidInput
\* failure at once: it calls no provider and neither reads nor writes the store.
C5_InvalidInput ==
    \A p \in Procs :
        NothingGiven(req[p]) =>
            /\ pc[p] = "idle"
            /\ obs[p] = NoObs
            /\ outcome[p] \in {NoOutcome, Failure(ErrInvalidInput, "undefined")}
            /\ outcome[p] # NoOutcome => store = before[p]

C5_Witness ==
    /\ Returned(Caller)
    /\ NothingGiven(req[Caller])
    /\ outcome[Caller].error = ErrInvalidInput
    /\ store # {}

\* C6: when both providers fail, analyzeFood returns the AnalysisUnavailable
\* failure (the chain's message with both errors) and writes nothing: the store
\* is as it was when the call was made.
C6_BothFail ==
    \A p \in Procs :
        LET calls == obs[p].providerCalls
        IN  (Len(calls) = 2 /\ ~calls[1].ok /\ ~calls[2].ok) =>
                /\ pc[p] = "idle"
                /\ outcome[p] =
                       Failure(ErrBothFailed(calls[1].error, calls[2].error),
                               "undefined")
                /\ Upserts(obs[p]) = <<>>
                /\ Updates(obs[p]) = <<>>
                /\ store = before[p]

C6_Witness ==
    /\ Returned(Caller)
    /\ Len(obs[Caller].providerCalls) = 2
    /\ ~obs[Caller].providerCalls[2].ok
    /\ ~outcome[Caller].success
    /\ Answered(obs[Caller])
    /\ store # {}

\* The data C7 is about: no name, or calories that is not a number.
InvalidData(d) ==
    \/ d.name.k # "string"
    \/ d.name.s = <<>>
    \/ d.calories.k \notin {"int", "frac"}

\* C7: when the chain returns parsed data without a name or with non-numeric
\* calories, analyzeFood returns the InvalidProviderData failure, writes nothing
\* to the cache, and no further provider is called: the provider that answered
\* is the last one called.
C7_InvalidProviderData ==
    \A p \in Procs :
        (result[p].success /\ result[p].hasData /\ InvalidData(result[p].data)) =>
            LET calls == obs[p].providerCalls
                n == Len(calls)
            IN  /\ pc[p] = "idle"
                /\ outcome[p] = Failure(ErrInvalidData, "undefined")
                /\ Upserts(obs[p]) = <<>>
                /\ store = before[p]
                /\ n \in {1, 2}
                /\ calls[n].ok
                /\ calls[n].provider = result[p].provider
                /\ result[p].provider = "groq" => n = 1

C7_Witness ==
    /\ Returned(Caller)
    /\ result[Caller].success
    /\ result[Caller].provider = "groq"
    /\ ~IsNumber(result[Caller].data.calories)
    /\ Len(obs[Caller].providerCalls) = 1
    /\ outcome[Caller].error = ErrInvalidData

\* The stored hit_count of a fingerprint (0 when it has no row).
HitCount(rows, hash) ==
    IF RowsOf(rows, hash) = {} THEN 0
    ELSE (CHOOSE r \in RowsOf(rows, hash) : TRUE).hit_count

FreshSuccess(p) ==
    Returned(p) /\ outcome[p].success /\ outcome[p].fromCache = "false"

CacheHit(p) ==
    Returned(p) /\ outcome[p].success /\ outcome[p].fromCache = "true"

PutThenGet(p) ==
    /\ Stored(prev[p].obs)
    /\ queryHash[p] = prev[p].hash
    /\ cached[p] # {}
    /\ Updates(obs[p])[1].ok

\* The payload of a CachedFood equals the payload of the result that was put.
SamePayload(c, d) ==
    /\ c.foodName = d.name
    /\ c.calories = d.calories
    /\ c.protein = d.protein
    /\ c.carbs = d.carbs
    /\ c.fats = d.fats
    /\ c.fiber = Or(d.fiber, Num(0))
    /\ SameValue(c.portionSize, d.portionSize)
    /\ SameValue(c.portionGrams, d.portionGrams)
    /\ SameValue(c.healthScore, d.healthScore)
    /\ SameValue(c.healthTip, d.healthTip)
    /\ SameValue(c.cookingMethod, d.cookingMethod)
    /\ SameValue(c.cuisineType, d.cuisineType)

\* C9 as claimed: a put followed immediately by a get on the same fingerprint
\* returns a record with the payload that was put and hit_count 2, and the
\* stored hit_count is 2 afterwards.
C9_AsClaimed ==
    \A p \in Procs :
        PutThenGet(p) =>
            \A c \in cached[p] :
                /\ SamePayload(c, prev[p].outcome.data)
                /\ c.hitCount = 2
                /\ HitCount(store, queryHash[p]) = 2

\* C10 as claimed: a put on a fingerprint that already has a record leaves one
\* record for it, whose nutrition columns are those of the new result alone
\* (what a first insert of that result stores) and whose hit_count is 1.
C10_AsClaimed ==
    \A p \in Procs :
        (FreshSuccess(p) /\ Stored(obs[p]) /\ RowsOf(before[p], queryHash[p]) # {}) =>
            /\ Cardinality(RowsOf(store, queryHash[p])) = 1
            /\ \A row \in RowsOf(store, queryHash[p]) :
                /\ row.hit_count = 1
                /\ \A c \in NutritionColumns :
                        row[c] = InsertedRow(
                                     SentRow(queryHash[p], queryType[p], <<>>,
                                             outcome[p].data, outcome[p].provider, 0),
                                     0, 0)[c]

\* The call put a record: a fresh success whose upsert was stored.  Under Spec
\* nothing has touched the store since.
JustPut(p) == FreshSuccess(p) /\ Stored(obs[p])

\* C11 as claimed: after every put, overwrites included, the record's creation
\* timestamp and its last-used timestamp are both the time of the put (so they
\* are equal).
C11_AsClaimed ==
    \A p \in Procs :
        JustPut(p) =>
            \A row \in RowsOf(store, queryHash[p]) :
                /\ row.last_used_at <= now
                /\ row.created_at = row.last_used_at

(***************************************************************************)
(* Concurrent requests.  Under SpecPar the two processes run analyzeFood   *)
(* at the same time on one fingerprint; their steps interleave at every    *)
(* await.  The store starts cold, or warm: holding the record an earlier   *)
(* request put for that fingerprint.                                       *)
(***************************************************************************)
\* The record analyzeFood({text: "idli"}) puts at time 0 when Groq answers Idli.
SeedRow ==
    InsertedRow(SentRow(QueryHash(ReqIdli), QueryType(ReqIdli), QueryText(ReqIdli),
                        Idli, "groq", 0),
                1, 0)

InitPar ==
    /\ \/ store = {} /\ nextId = 1
       \/ store = {SeedRow} /\ nextId = 2
    /\ foodLogs = 0
    /\ now = 0
    /\ ncalls = 0
    /\ pc = [p \in Procs |-> "idle"]
    /\ req = [p \in Procs |-> ReqNothing]
    /\ queryText = [p \in Procs |-> <<>>]
    /\ queryHash = [p \in Procs |-> NoHash]
    /\ queryType = [p \in Procs |-> "text"]
    /\ data = [p \in Procs |-> {}]
    /\ cached = [p \in Procs |-> {}]
    /\ groqResult = [p \in Procs |-> NoAIResult]
    /\ result = [p \in Procs |-> NoAIResult]
    /\ outcome = [p \in Procs |-> NoOutcome]
    /\ obs = [p \in Procs |-> NoObs]
    /\ before = [p \in Procs |-> {}]
    /\ prev = [p \in Procs |-> NoSummary]
    /\ similar = [p \in Procs |-> NoSimilar]
    /\ search = [p \in Procs |-> NoSearch]

ParRequests == {ReqIdli, ReqIdliFresh}

ParReplies ==
    {Reply(TRUE, Idli, <<>>), Reply(TRUE, Water, <<>>)}
        \cup {Reply(FALSE, NoNutrition, e) : e \in ProviderErrors}

StepPar(p) ==
    \/ \E ok \in BOOLEAN : Select(p, ok)
    \/ \E ok \in BOOLEAN : Update(p, ok)
    \/ \E reply \in ParReplies : Groq(p, reply)
    \/ \E reply \in ParReplies : Gemini(p, reply)
    \/ \E ok \in BOOLEAN : Upsert(p, ok)

NextPar ==
    \/ \E p \in Procs : \E input \in ParRequests : Call(p, input)
    \/ \E p \in Procs : StepPar(p)
    \/ Tick

SpecPar == InitPar /\ [][NextPar]_vars

\* The columns a put sends that do not depend on the time of the put.
PutColumns ==
    NutritionColumns \cup {"query_type", "query_text", "ai_provider", "hit_count"}

\* What a first insert of p's fresh result stores in column c.
PutOf(p, c) ==
    InsertedRow(SentRow(queryHash[p], queryType[p],
                        Slice(CacheText(queryText[p], outcome[p].data), QueryTextLimit),
                        outcome[p].data, outcome[p].provider, 0),
                0, 0)[c]

\* Both processes ran on a cold cache for the same fingerprint, both missed,
\* both got a fresh result and both puts were stored.
ColdRace ==
    /\ \A p \in Procs :
        /\ JustPut(p)
        /\ ~req[p].skipCache
        /\ RowsOf(before[p], queryHash[p]) = {}
    /\ \A p, q \in Procs : queryHash[p] = queryHash[q]

\* C12 as claimed: after two concurrent requests on a cold cache have both put
\* their result, the store holds one record for the fingerprint and every
\* column of it comes from the put of one and the same request.
C12_AsClaimed ==
    ColdRace =>
        \A h \in {queryHash[p] : p \in Procs} :
            /\ Cardinality(RowsOf(store, h)) = 1
            /\ \A row \in RowsOf(store, h) :
                \E p \in Procs : \A c \in PutColumns : row[c] = PutOf(p, c)

\* C13: under every interleaving of concurrent gets and puts on one fingerprint
\* the stored hit_count of every record is a positive integer.
C13_HitCountPositive ==
    \A row \in store : row.hit_count \in Nat /\ row.hit_count >= 1

\* Two concurrent gets both read the same count and both wrote it back raised by
\* one: an increment was lost.
C13_Witness ==
    /\ \A p \in Procs : CacheHit(p) /\ Updates(obs[p])[1].ok
    /\ \E c \in cached["p1"] : \E d \in cached["p2"] :
        /\ c.hitCount = d.hitCount
        /\ HitCount(store, queryHash["p1"]) = c.hitCount + 1
    /\ queryHash["p1"] = queryHash["p2"]

\* No process completes a put in this step.
NoPut == \A p \in Procs : ~(pc[p] = "upsert" /\ pc'[p] # "upsert")

\* C14 as claimed: in a step in which no put occurs, the stored hit_count of no
\* record decreases.
C14_AsClaimed ==
    [][NoPut =>
        \A row \in store : \A next \in store' :
            next.id = row.id => next.hit_count >= row.hit_count]_vars

(***************************************************************************)
(* The fingerprint of a request.  Under SpecKeys one caller makes requests *)
(* of every shape: text only, image only, image with whitespace-only text, *)
(* image with a voice description, image URL only.                         *)
(***************************************************************************)
\* A photo and a voice description, to be logged.
ReqPhotoVoice == Input(Photo, Undefined, Undefined, TextIdli, Undefined, TRUE, FALSE)

\* A photo and a text of whitespace only.
ReqPhotoBlank ==
    Input(Photo, Undefined, Str(<<" ">>), Undefined, Undefined, FALSE, FALSE)

\* An image URL and nothing else.
ReqUrl == Input(NoFile, W("https://img"), Undefined, Undefined, Undefined, FALSE, FALSE)

KeyRequests == {ReqIdli, ReqPhoto, ReqPhotoVoice, ReqPhotoBlank, ReqUrl}

\* The clock plays no part in the choice of the fingerprint: it stands still.
NextKeys ==
    \/ \E input \in KeyRequests : Call(Caller, input)
    \/ Step(Caller)

SpecKeys == Init /\ [][NextKeys]_vars

\* A store call of the lookup (the select or the hit-count update) failed.
LookupFailed(o) ==
    \E i \in 1..Len(o.storeCalls) :
        o.storeCalls[i].op \in {"select", "update"} /\ ~o.storeCalls[i].ok

\* C15 as claimed: when a store call of the lookup fails, the request is handled
\* as a cache miss: it enters the provider chain and is not answered from the
\* cache; the failure it may return is the chain's or the validation's.
C15_AsClaimed ==
    \A p \in Procs :
        (Returned(p) /\ LookupFailed(obs[p])) =>
            /\ obs[p].chain = 1
            /\ outcome[p].fromCache # "true"
            /\ cached[p] = {}

\* The cache write of the call failed (error returned or thrown, or row rejected).
WriteFailed(o) == Len(Upserts(o)) = 1 /\ ~Upserts(o)[1].ok

\* C16: when the cache write fails, analyzeFood still returns success with the
\* fresh result, the provider that answered and fromCache=false, and the store is
\* as it was: it does not hold the new record.
C16_WriteErrorSwallowed ==
    \A p \in Procs :
        (pc[p] \in {"idle", "log"} /\ WriteFailed(obs[p])) =>
            /\ outcome[p].success
            /\ outcome[p].hasData
            /\ outcome[p].data = result[p].data
            /\ outcome[p].provider = result[p].provider
            /\ outcome[p].provider \in {"groq", "gemini"}
            /\ outcome[p].fromCache = "false"
            /\ outcome[p].error = <<>>
            /\ store = before[p]

C16_Witness ==
    /\ Returned(Caller)
    /\ WriteFailed(obs[Caller])
    /\ outcome[Caller].success
    /\ outcome[Caller].provider = "gemini"
    /\ RowsOf(store, queryHash[Caller]) = {}
    /\ store # {}

\* C17: every call of analyzeFood ends by returning an outcome with a success
\* flag: a success carries data and no error, a failure carries a non-empty error
\* message; this includes the calls in which fingerprinting, the store or the
\* providers fail.
C17_StructuredOutcome ==
    \A p \in Procs :
        (pc[p] = "idle" /\ (req[p] # ReqNothing \/ Returned(p))) =>
            /\ outcome[p].success \in BOOLEAN
            /\ outcome[p].success => outcome[p].hasData /\ outcome[p].error = <<>>
            /\ ~outcome[p].success => ~outcome[p].hasData /\ outcome[p].error # <<>>

\* Fingerprinting failed: the image could not be read.
C17_Witness ==
    /\ Returned(Caller)
    /\ req[Caller].imageFile.present
    /\ ~req[Caller].imageFile.readable
    /\ ~outcome[Caller].success
    /\ outcome[Caller].error = ErrCaught
    /\ prev[Caller].outcome.success

\* The three failure kinds of the taxonomy, by their messages.
ErrorKind(error) ==
    IF error = ErrInvalidInput THEN "InvalidInput"
    ELSE IF error = ErrInvalidData THEN "InvalidProviderData"
    ELSE IF \E g, m \in ProviderErrors : error = ErrBothFailed(g, m)
    THEN "AnalysisUnavailable"
    ELSE "other"

\* C18 as claimed: every failure outcome analyzeFood returns is InvalidInput,
\* AnalysisUnavailable or InvalidProviderData.
C18_AsClaimed ==
    \A p \in Procs :
        (Returned(p) /\ ~outcome[p].success) =>
            ErrorKind(outcome[p].error)
                \in {"InvalidInput", "AnalysisUnavailable", "InvalidProviderData"}

(***************************************************************************)
(* generateTextHash on its own.  Under SpecHash each process is handed a   *)
(* text of at most MaxTextLen characters and computes its fingerprint.     *)
(***************************************************************************)
MaxTextLen == 3

\* A letter in both cases, a space and a punctuation mark.
TextChars == {"a", "A", " ", ","}

RECURSIVE TextsOfLen(_)
TextsOfLen(n) ==
    IF n = 0 THEN {<<>>}
    ELSE {Append(t, c) : t \in TextsOfLen(n - 1), c \in TextChars}

Texts == UNION {TextsOfLen(n) : n \in 0..MaxTextLen}

InitHash ==
    /\ store = {}
    /\ nextId = 1
    /\ foodLogs = 0
    /\ now = 0
    /\ ncalls = 0
    /\ pc = [p \in Procs |-> "idle"]
    /\ req = [p \in Procs |-> ReqNothing]
    /\ queryText \in [Procs -> Texts]
    /\ queryHash = [p \in Procs |-> NoHash]
    /\ queryType = [p \in Procs |-> "text"]
    /\ data = [p \in Procs |-> {}]
    /\ cached = [p \in Procs |-> {}]
    /\ groqResult = [p \in Procs |-> NoAIResult]
    /\ result = [p \in Procs |-> NoAIResult]
    /\ outcome = [p \in Procs |-> NoOutcome]
    /\ obs = [p \in Procs |-> NoObs]
    /\ before = [p \in Procs |-> {}]
    /\ prev = [p \in Procs |-> NoSummary]
    /\ similar = [p \in Procs |-> NoSimilar]
    /\ search = [p \in Procs |-> NoSearch]

\* queryHash = generateTextHash(queryText)
TextHash(p) ==
    /\ queryHash[p] = NoHash
    /\ queryHash' = [queryHash EXCEPT ![p] = generateTextHash(queryText[p])]
    /\ UNCHANGED <<similar, search, store, nextId, foodLogs, now, ncalls, pc, req, queryText,
                   queryType, data, cached, groqResult, result, outcome, obs,
                   before, prev>>

NextHash == \E p \in Procs : TextHash(p)

SpecHash == InitHash /\ [][NextHash]_vars

\* What is left of a text when case, punctuation, surrounding whitespace and the
\* length of whitespace runs are disregarded (punctuation goes first, so that
\* the spaces around it form one run).
Canonical(t) == Trim(CollapseSpaces(StripPunctuation(ToLowerCase(t))))

\* C19 as claimed: two texts that differ only in case, surrounding whitespace,
\* whitespace runs and punctuation have the same fingerprint.
C19_AsClaimed ==
    \A p, q \in Procs :
        (/\ queryHash[p] # NoHash
         /\ queryHash[q] # NoHash
         /\ Canonical(queryText[p]) = Canonical(queryText[q]))
        => queryHash[p] = queryHash[q]

\* A text or transcript that is given and not made of whitespace alone.
NonBlank(v) == v.k = "string" /\ \E i \in 1..Len(v.s) : v.s[i] \notin Whitespace

HasWords(input) == NonBlank(input.text) \/ NonBlank(input.audioTranscript)

\* The fingerprint function that C20 names for a request.
KeyKind(input) ==
    IF input.imageFile.present /\ HasWords(input) THEN "combined"
    ELSE IF input.imageFile.present THEN "image"
    ELSE "text"

\* C20: a request past validation is keyed by the combined fingerprint exactly
\* when it carries an image and non-blank text or transcript, by the image
\* fingerprint exactly when it carries an image and no such text, and by the text
\* fingerprint otherwise; its query type is the kind of its key, and so is the
\* query_type of every stored record.
C20_KeyKind ==
    /\ \A p \in Procs :
        queryHash[p] # NoHash =>
            /\ queryHash[p].tag = KeyKind(req[p])
            /\ queryType[p] = queryHash[p].tag
            /\ queryHash[p].tag = "combined" =>
                queryHash[p] = generateCombinedHash(queryText[p], req[p].imageFile)
            /\ queryHash[p].tag = "image" =>
                queryHash[p] = generateImageHash(req[p].imageFile)
            /\ queryHash[p].tag = "text" =>
                queryHash[p] = generateTextHash(queryText[p])
    /\ \A row \in store : row.query_type = row.query_hash.tag

\* Records of all three kinds are stored, the last one by a request with an
\* image and a text of whitespace only.
C20_Witness ==
    /\ JustPut(Caller)
    /\ req[Caller] = ReqPhotoBlank
    /\ queryType[Caller] = "image"
    /\ \E row \in store : row.query_type = "combined"
    /\ \E row \in store : row.query_type = "text"

\* A request with skipCache that got past validation and fingerprinting.
SkipsCache(p) == req[p].skipCache /\ queryHash[p] # NoHash

\* The chain's result passed the validation of analyzeFood.
ValidFresh(p) ==
    /\ result[p].success
    /\ result[p].hasData
    /\ result[p].data.name.k = "string"
    /\ result[p].data.name.s # <<>>
    /\ result[p].data.calories.k \in {"int", "frac"}

HangRequests == {ReqIdli, ReqIdliFresh}

NextHang ==
    \/ \E input \in HangRequests : Call(Caller, input)
    \/ StepPar(Caller)

\* Every await of the call is resumed once its promise settles; the store and
\* the fallback provider settle theirs.  Nothing is assumed of the primary.
FairHang ==
    /\ WF_vars(\E ok \in BOOLEAN : Select(Caller, ok))
    /\ WF_vars(\E ok \in BOOLEAN : Update(Caller, ok))
    /\ WF_vars(\E reply \in ParReplies : Gemini(Caller, reply))
    /\ WF_vars(\E ok \in BOOLEAN : Upsert(Caller, ok))

SpecHang == Init /\ [][NextHang]_vars /\ FairHang

\* C22 as claimed: a request that waits for the primary provider goes on in the
\* end, whether or not that provider ever answers, and analyzeFood returns.
C22_AsClaimed == (pc[Caller] = "groq") ~> (pc[Caller] = "idle")

\* Once the primary provider has answered or failed, the call does return: from
\* the fallback and from the write.
PastPrimaryReturns == (pc[Caller] \in {"update", "gemini", "upsert"}) ~> (pc[Caller] = "idle")

(***************************************************************************)
(* What the providers may return.  parseAIResponse is JSON.parse with a    *)
(* type assertion: nothing is checked of the payload but, afterwards, that *)
(* name is truthy and calories a number.  Under SpecPayloads the providers *)
(* also return numbers below zero and leave out the fields the             *)
(* validation does not look at.                                            *)
(***************************************************************************)
\* Well-typed JSON with numbers below zero.
Negative ==
    Nutrition(W("Diet soda"), Num(0 - 5), Num(0), Num(0 - 1), Num(0), Num(0),
              W("small"), Num(0 - 330), W("good"), W("tip"), Undefined, Undefined,
              W("low"))

\* The four NOT NULL numbers and a name, nothing else.
Unscored ==
    Nutrition(W("Vada"), Num(97), Num(2), Num(10), Num(5), Undefined, Undefined,
              Undefined, Undefined, Undefined, Undefined, Undefined, Undefined)

PayloadReplies ==
    {Reply(TRUE, d, <<>>) : d \in {Idli, Negative, Unscored}}
        \cup {Reply(FALSE, NoNutrition, e) : e \in ProviderErrors}

StepPayloads(p) ==
    \/ \E ok \in BOOLEAN : Select(p, ok)
    \/ \E ok \in BOOLEAN : Update(p, ok)
    \/ \E reply \in PayloadReplies : Groq(p, reply)
    \/ \E reply \in PayloadReplies : Gemini(p, reply)
    \/ \E ok \in BOOLEAN : Upsert(p, ok)

NextPayloads ==
    \/ \E input \in HangRequests : Call(Caller, input)
    \/ StepPayloads(Caller)

SpecPayloads == Init /\ [][NextPayloads]_vars

NumberColumns == {"calories", "protein", "carbs", "fats", "fiber", "portion_grams"}

\* C23 as claimed: every record of the store has a fingerprint of its own,
\* nutrition numbers that are integers not below zero, and a health score that
\* is one of excellent, good, moderate, indulgent.
C23_AsClaimed ==
    \A row \in store :
        /\ \A other \in store : other.query_hash = row.query_hash => other = row
        /\ \A c \in NumberColumns : row[c].k = "int" /\ row[c].n >= 0
        /\ row.health_score \in HealthScores

\* What does hold of every record: the fingerprint is its own, the numbers the
\* schema declares NOT NULL are integers, the others integers or NULL, and the
\* health score one of the four or NULL.
StoreWellTyped ==
    \A row \in store :
        /\ \A other \in store : other.query_hash = row.query_hash => other = row
        /\ \A c \in {"calories", "protein", "carbs", "fats"} : row[c].k = "int"
        /\ \A c \in {"fiber", "portion_grams"} : row[c].k = "int" \/ row[c] = Null
        /\ row.health_score \in HealthScores \cup {Null}

(***************************************************************************)
(* findSimilarCached.  One query: the rows whose query_text matches, by    *)
(* hit_count descending, at most `limit` of them.  ORDER BY names          *)
(* hit_count only, so the database returns rows of equal hit_count in the  *)
(* order its plan and the physical placement of the rows give: any order.  *)
(* Under SpecSimilar two callers search a store that holds records         *)
(* analyzeFood has put and gets have counted.                              *)
(***************************************************************************)
\* The words of a text: the maximal runs of word characters, case folded (what
\* to_tsvector and websearch_to_tsquery keep, stemming and stop words aside).
WordsOf(t) ==
    LET l == ToLowerCase(t)
    IN  {SubSeq(l, i, j) : <<i, j>> \in
            {ij \in (DOMAIN l) \X (DOMAIN l) :
                /\ ij[1] <= ij[2]
                /\ \A k \in ij[1]..ij[2] : l[k] \in WordChars
                /\ ij[1] = 1 \/ l[ij[1] - 1] \notin WordChars
                /\ ij[2] = Len(l) \/ l[ij[2] + 1] \notin WordChars}}

\* .textSearch("query_text", query, {type: "websearch"}): every word of the
\* query is a word of the text; a query without words matches nothing.
TextSearch(text, query) ==
    WordsOf(query) # {} /\ WordsOf(query) \subseteq WordsOf(text)

\* The sequences without repetition of n of the rows.
Arrangements(rows, n) ==
    {seq \in [1..n -> rows] : \A i, j \in 1..n : seq[i] = seq[j] => i = j}

\* .order("hit_count", {ascending: false}).limit(limit): what the database may
\* return.  Rows of equal hit_count come in any order, and any of them is cut.
OrderLimit(rows, limit) ==
    LET n == IF Cardinality(rows) < limit THEN Cardinality(rows) ELSE limit
    IN  {seq \in Arrangements(rows, n) :
            /\ \A i, j \in 1..n : i < j => seq[i].hit_count >= seq[j].hit_count
            /\ \A r \in rows : (\A i \in 1..n : seq[i] # r) =>
                    \A i \in 1..n : seq[i].hit_count >= r.hit_count}

\* One call of findSimilarCached; an error gives [].
FindSimilar(p, query, limit, ok) ==
    /\ pc[p] = "idle"
    /\ \E seq \in OrderLimit({r \in store : TextSearch(r.query_text, query)}, limit) :
        similar' = [similar EXCEPT ![p] =
                        [called |-> TRUE, query |-> query, limit |-> limit,
                         read |-> store, ok |-> ok,
                         rows |-> IF ok THEN [i \in DOMAIN seq |-> CachedFood(seq[i])]
                                  ELSE <<>>]]
    /\ UNCHANGED <<search, store, nextId, foodLogs, now, ncalls, pc, req, queryText,
                   queryHash, queryType, data, cached, groqResult, result, outcome,
                   obs, before, prev>>

MaxLimit == 2

MaxHits == 2

TextDal == <<"d", "a", "l">>

TextDalIdli == <<"d", "a", "l", " ", "i", "d", "l", "i">>

\* The record analyzeFood({text}) put, `hits - 1` gets later.
SimilarRow(id, text, d, hits) ==
    [InsertedRow(SentRow(generateTextHash(text), "text", text, d, "groq", 0), id, 0)
        EXCEPT !.hit_count = hits]

\* The stores searched: a record or none for each of "dal", "dal idli", "idli".
SimilarStores ==
    {a \cup b \cup c :
        a \in {{}} \cup {{SimilarRow(1, TextDal, Water, h)} : h \in 1..MaxHits},
        b \in {{}} \cup {{SimilarRow(2, TextDalIdli, Idli, h)} : h \in 1..MaxHits},
        c \in {{}} \cup {{SimilarRow(3, TextIdli.s, Idli, h)} : h \in 1..MaxHits}}

InitSimilar ==
    /\ store \in SimilarStores
    /\ nextId = 4
    /\ foodLogs = 0
    /\ now = 0
    /\ ncalls = 0
    /\ pc = [p \in Procs |-> "idle"]
    /\ req = [p \in Procs |-> ReqNothing]
    /\ queryText = [p \in Procs |-> <<>>]
    /\ queryHash = [p \in Procs |-> NoHash]
    /\ queryType = [p \in Procs |-> "text"]
    /\ data = [p \in Procs |-> {}]
    /\ cached = [p \in Procs |-> {}]
    /\ groqResult = [p \in Procs |-> NoAIResult]
    /\ result = [p \in Procs |-> NoAIResult]
    /\ outcome = [p \in Procs |-> NoOutcome]
    /\ obs = [p \in Procs |-> NoObs]
    /\ before = [p \in Procs |-> {}]
    /\ prev = [p \in Procs |-> NoSummary]
    /\ similar = [p \in Procs |-> NoSimilar]
    /\ search = [p \in Procs |-> NoSearch]

SimilarQueries == {TextDal, TextIdli.s}

NextSimilar ==
    \E p \in Procs : \E query \in SimilarQueries : \E limit \in 1..MaxLimit :
        \E ok \in BOOLEAN : FindSimilar(p, query, limit, ok)

SpecSimilar == InitSimilar /\ [][NextSimilar]_vars

\* The call of p has returned the rows the database gave it.
Found(p) == similar[p].called /\ similar[p].ok

\* C24 as claimed: findSimilarCached returns at most limit records by descending
\* hit_count, and what it returns is determined by the store, the query and the
\* limit: two calls that read the same store with the same query and limit
\* return the same records in the same order.
C24_AsClaimed ==
    \A p \in Procs : Found(p) =>
        /\ Len(similar[p].rows) <= similar[p].limit
        /\ \A i, j \in DOMAIN similar[p].rows :
            i < j => similar[p].rows[i].hitCount >= similar[p].rows[j].hitCount
        /\ \A q \in Procs :
            (/\ Found(q)
             /\ similar[q].read = similar[p].read
             /\ similar[q].query = similar[p].query
             /\ similar[q].limit = similar[p].limit)
                => similar[q].rows = similar[p].rows

\* What does hold of every call: at most limit records, by descending
\* hit_count, each a record of the store that matches the query, and none left
\* out has a higher hit_count than one returned.
SimilarOrdered ==
    \A p \in Procs : Found(p) =>
        /\ Len(similar[p].rows) <= similar[p].limit
        /\ \A i, j \in DOMAIN similar[p].rows :
            i < j => similar[p].rows[i].hitCount >= similar[p].rows[j].hitCount
        /\ \A i \in DOMAIN similar[p].rows :
            \E r \in similar[p].read :
                /\ CachedFood(r) = similar[p].rows[i]
                /\ TextSearch(r.query_text, similar[p].query)

(***************************************************************************)
(* searchFood and searchWithFallback.  The reply of a provider is its text *)
(* as parseAIResponse reads it: a JSON array, other JSON, no JSON, or no   *)
(* text; or the call throws.  An element of the array is an object or      *)
(* null.                                                                   *)
(***************************************************************************)
MinQueryLength == 2

SuggestionLimit == 5

Suggestion(name, calories) == [null |-> FALSE, name |-> name, calories |-> calories]

NullItem == [null |-> TRUE, name |-> Undefined, calories |-> Undefined]

Dal == Suggestion(W("Dal Tadka"), Num(150))

Unnamed == Suggestion(Undefined, Num(150))

Unpriced == Suggestion(W("Dal Makhani"), W("150 kcal"))

SearchReply(kind, items) == [kind |-> kind, items |-> items]

\* Six suggestions where five were asked for; a mixed list; a list with a null.
SearchReplies ==
    {SearchReply(k, <<>>) : k \in {"throws", "empty", "unparsable", "object"}}
        \cup {SearchReply("array", l) :
                l \in {<<>>, <<Dal, Dal, Dal, Dal, Dal, Dal>>,
                       <<Dal, Unnamed, Unpriced>>, <<Dal, NullItem>>,
                       <<Dal, Dal, Dal, Dal, Dal, NullItem>>}}

\* Mutant: the provider's list is returned whole.
SuggestionsUncut(reply) == reply.items

\* data.slice(0, 5)
Suggestions(reply) == Slice(reply.items, SuggestionLimit)

\* s.name && typeof s.calories === "number"
KeptSuggestion(s) == Truthy(s.name) /\ IsNumber(s.calories)

\* What searchFood returns for what searchWithFallback gave it: the filter
\* throws on a null element, which the catch turns into a failure.
SearchReturn(sr, list) ==
    IF \E i \in DOMAIN list : list[i].null
    THEN [sr EXCEPT !.success = FALSE, !.suggestions = <<>>]
    ELSE [sr EXCEPT !.success = TRUE, !.suggestions = SelectSeq(list, KeptSuggestion)]

\* A provider was called with the search prompt for `query`.
Prompted(sr, provider) ==
    [sr EXCEPT !.prompts = Append(@, [provider |-> provider, query |-> Trim(sr.query)])]

\* searchFood(query): the guard, then searchWithFallback(query.trim()).
SearchFood(p, query) ==
    /\ pc[p] = "idle"
    /\ ncalls < MaxCalls
    /\ ncalls' = ncalls + 1
    /\ LET sr == [called |-> TRUE, query |-> query, before |-> store, chain |-> 0,
                  prompts |-> <<>>, success |-> FALSE, suggestions |-> <<>>]
       IN  IF query = <<>> \/ Len(Trim(query)) < MinQueryLength
           THEN /\ search' = [search EXCEPT ![p] = [sr EXCEPT !.success = TRUE]]
                /\ UNCHANGED pc
           ELSE /\ search' = [search EXCEPT ![p] = [sr EXCEPT !.chain = 1]]
                /\ pc' = [pc EXCEPT ![p] = "search_groq"]
    /\ UNCHANGED <<similar, store, nextId, foodLogs, now, req, queryText, queryHash,
                   queryType, data, cached, groqResult, result, outcome, obs, before,
                   prev>>

\* searchWithFallback, the primary: an array is cut to five and returned.
SearchGroq(p, reply) ==
    /\ pc[p] = "search_groq"
    /\ LET sr == Prompted(search[p], "groq")
       IN  IF reply.kind = "array"
           THEN /\ search' = [search EXCEPT ![p] = SearchReturn(sr, Suggestions(reply))]
                /\ pc' = [pc EXCEPT ![p] = "idle"]
           ELSE /\ search' = [search EXCEPT ![p] = sr]
                /\ pc' = [pc EXCEPT ![p] = "search_gemini"]
    /\ UNCHANGED <<similar, store, nextId, foodLogs, now, ncalls, req, queryText,
                   queryHash, queryType, data, cached, groqResult, result, outcome,
                   obs, before, prev>>

\* searchWithFallback, the fallback: an array is cut to five, anything else is [].
SearchGemini(p, reply) ==
    /\ pc[p] = "search_gemini"
    /\ LET sr == Prompted(search[p], "gemini")
       IN  search' = [search EXCEPT ![p] =
                        SearchReturn(sr, IF reply.kind = "array"
                                         THEN Suggestions(reply) ELSE <<>>)]
    /\ pc' = [pc EXCEPT ![p] = "idle"]
    /\ UNCHANGED <<similar, store, nextId, foodLogs, now, ncalls, req, queryText,
                   queryHash, queryType, data, cached, groqResult, result, outcome,
                   obs, before, prev>>

\* Nothing, one letter, one letter in spaces, a word in spaces.
SearchQueries ==
    {<<>>, <<"d">>, <<" ", "d", " ">>, <<" ", "d", "a", "l", " ">>}

\* The store searchFood runs beside: empty, or holding a record.
InitSearch == InitPar

\* Searches are server actions: two of them may be in progress at a time.
NextSearch ==
    \/ \E p \in Procs : \E query \in SearchQueries : SearchFood(p, query)
    \/ \E p \in Procs : \E reply \in SearchReplies : SearchGroq(p, reply)
    \/ \E p \in Procs : \E reply \in SearchReplies : SearchGemini(p, reply)

SpecSearch == InitSearch /\ [][NextSearch]_vars

\* The last call of searchFood by p has returned.
Searched(p) == search[p].called /\ pc[p] = "idle"

\* C25 as claimed: searchFood never reads or writes the cache store, calls the
\* provider chain with a search prompt for every query it is given, and returns
\* at most 5 suggestions.
C25_AsClaimed ==
    \A p \in Procs : Searched(p) =>
        /\ store = search[p].before
        /\ search[p].chain = 1
        /\ search[p].prompts # <<>>
        /\ \A i \in DOMAIN search[p].prompts :
            search[p].prompts[i].query = Trim(search[p].query)
        /\ Len(search[p].suggestions) <= SuggestionLimit

\* C25: searchFood leaves the cache store as it was and returns at most 5
\* suggestions, each with a name and a numeric calories.  A query of at least 2
\* characters after trimming goes to the provider chain exactly once, trimmed:
\* to Groq first, and to Gemini next when Groq gave no array; a shorter query
\* is answered with success and no suggestions without any provider call.
C25_Search ==
    \A p \in Procs :
        /\ search[p].called => store = search[p].before
        /\ Searched(p) =>
            /\ Len(search[p].suggestions) <= SuggestionLimit
            /\ \A i \in DOMAIN search[p].suggestions :
                KeptSuggestion(search[p].suggestions[i])
            /\ IF Len(Trim(search[p].query)) >= MinQueryLength
               THEN /\ search[p].chain = 1
                    /\ Len(search[p].prompts) \in {1, 2}
                    /\ search[p].prompts[1].provider = "groq"
                    /\ Len(search[p].prompts) = 2 =>
                        search[p].prompts[2].provider = "gemini"
                    /\ \A i \in DOMAIN search[p].prompts :
                        search[p].prompts[i].query = Trim(search[p].query)
               ELSE /\ search[p].chain = 0
                    /\ search[p].prompts = <<>>
                    /\ search[p].success
                    /\ search[p].suggestions = <<>>

\* A search for " dal " to which Groq answered six suggestions: five returned.
C25_Witness ==
    /\ Searched(Caller)
    /\ search[Caller].query = <<" ", "d", "a", "l", " ">>
    /\ search[Caller].success
    /\ Len(search[Caller].prompts) = 1
    /\ Len(search[Caller].suggestions) = SuggestionLimit

(***************************************************************************)
(* Gets that straddle a put.  The count a get writes is the count its      *)
(* select read, plus one, whatever has been put in between.                *)
(***************************************************************************)
\* Every call made so far is still on record: as a process's call in progress
\* (or last returned), or as the one it made before.
AllOnRecord ==
    ncalls = Cardinality({p \in Procs : req[p] # ReqNothing})
                + Cardinality({p \in Procs : prev[p].req # ReqNothing})

\* The calls whose get read the record `row` with the food it holds now: those
\* in progress or last returned, and those made before them.
ReadersNow(row) ==
    {p \in Procs : \E r \in data[p] : r.id = row.id /\ r.food_name = row.food_name}

ReadersBefore(row) ==
    {p \in Procs :
        /\ prev[p].hash = row.query_hash
        /\ prev[p].outcome.fromCache = "true"
        /\ prev[p].outcome.data.name = row.food_name}

\* C26 as claimed: the stored hit_count is at most 1 plus the number of gets
\* that read the record after the most recent put.  A get that read the record
\* after the put read the food the record holds now; so a record holding a food
\* that no get has read has hit_count 1: no get that read it before the put
\* carries its count over the reset.
C26_AsClaimed ==
    \A row \in store :
        AllOnRecord =>
            row.hit_count <= 1 + Cardinality(ReadersNow(row))
                                + Cardinality(ReadersBefore(row))

(***************************************************************************)
(* What a get leaves alone.                                                *)
(***************************************************************************)
\* The columns a get may write.
CountedColumns == {"hit_count", "last_used_at"}

\* p's select returns in this step; p's update returns in this step.
SelectStep(p) == pc[p] = "select" /\ pc'[p] # "select"

UpdateStep(p) == pc[p] = "update" /\ pc'[p] # "update"

\* C27: a get changes only hit_count and last_used_at of the record addressed
\* by the fingerprint.  The select changes nothing, so a get that misses
\* changes nothing; the update leaves every other record as it was, adds and
\* removes none, and leaves every other column of the record it read, which is
\* the record under the request's fingerprint, as it was.
C27_GetFrame ==
    [][\A p \in Procs :
        /\ SelectStep(p) => store' = store
        /\ UpdateStep(p) =>
            \E r \in data[p] :
                /\ r.query_hash = queryHash[p]
                /\ Cardinality(store') = Cardinality(store)
                /\ \A s \in store : s.id # r.id => s \in store'
                /\ \A s \in store : s.id = r.id =>
                    /\ s.query_hash = queryHash[p]
                    /\ \E t \in store' :
                        \A c \in (DOMAIN s) \ CountedColumns : t[c] = s[c]]_vars

\* A get has counted a hit on one record while the store holds a record under
\* another fingerprint, and a get before it missed.
C27_Witness ==
    /\ CacheHit(Caller)
    /\ Updates(obs[Caller])[1].ok
    /\ HitCount(store, queryHash[Caller]) = HitCount(before[Caller], queryHash[Caller]) + 1
    /\ \E s \in store : s.query_hash # queryHash[Caller]
    /\ prev[Caller].outcome.fromCache = "false"
    /\ Selects(prev[Caller].obs) # <<>>

(***************************************************************************)
(* What gets past the validation.                                          *)
(***************************************************************************)
\* The call is past the validation: at the cache, at a provider or beyond.
PastValidation(p) == pc[p] \in {"select", "update", "groq", "gemini", "upsert", "log"}

\* C28 as claimed: a request past the validation carries an image file, or a
\* text or transcript that is not empty once trimmed; none reaches the cache or
\* a provider with an empty query and no image.
C28_AsClaimed ==
    \A p \in Procs :
        PastValidation(p) =>
            /\ req[p].imageFile.present \/ HasWords(req[p])
            /\ req[p].imageFile.present \/ queryText[p] # <<>>

(***************************************************************************)
(* Queries in another script.  In a JavaScript regular expression without  *)
(* the u and v flags \w is [A-Za-z0-9_]: a Devanagari letter matches       *)
(* [^\w\s] and is removed with the punctuation.  Under SpecScripts each    *)
(* process is handed a text of Latin and Devanagari letters and spaces.    *)
(***************************************************************************)
\* The letters DA and LA of Devanagari, by code point.
Devanagari == {"U+0926", "U+0932"}

ScriptChars == {"a", " "} \cup Devanagari

RECURSIVE ScriptTextsOfLen(_)
ScriptTextsOfLen(n) ==
    IF n = 0 THEN {<<>>}
    ELSE {Append(t, c) : t \in ScriptTextsOfLen(n - 1), c \in ScriptChars}

ScriptTexts == UNION {ScriptTextsOfLen(n) : n \in 0..MaxTextLen}

InitScripts ==
    /\ store = {}
    /\ nextId = 1
    /\ foodLogs = 0
    /\ now = 0
    /\ ncalls = 0
    /\ pc = [p \in Procs |-> "idle"]
    /\ req = [p \in Procs |-> ReqNothing]
    /\ queryText \in [Procs -> ScriptTexts]
    /\ queryHash = [p \in Procs |-> NoHash]
    /\ queryType = [p \in Procs |-> "text"]
    /\ data = [p \in Procs |-> {}]
    /\ cached = [p \in Procs |-> {}]
    /\ groqResult = [p \in Procs |-> NoAIResult]
    /\ result = [p \in Procs |-> NoAIResult]
    /\ outcome = [p \in Procs |-> NoOutcome]
    /\ obs = [p \in Procs |-> NoObs]
    /\ before = [p \in Procs |-> {}]
    /\ prev = [p \in Procs |-> NoSummary]
    /\ similar = [p \in Procs |-> NoSimilar]
    /\ search = [p \in Procs |-> NoSearch]

SpecScripts == InitScripts /\ [][NextHash]_vars

\* A letter or digit of any script.
LetterOrDigit(c) == c \in (WordChars \ {"_"}) \cup Devanagari

LetterOrSpace(c) == LetterOrDigit(c) \/ c \in Whitespace

\* The words of a query, one space between them: case folded, and what is
\* neither a letter or digit of some script nor whitespace left out.
SpokenWords(t) == Trim(CollapseSpaces(SelectSeq(ToLowerCase(t), LetterOrSpace)))

\* C29 as claimed: a query with a letter or digit of any script never has the
\* fingerprint of the empty string, and two queries have the same fingerprint
\* only if they are the same sequence of words.
C29_AsClaimed ==
    \A p, q \in Procs :
        (queryHash[p] # NoHash /\ queryHash[q] # NoHash) =>
            /\ (\E i \in DOMAIN queryText[p] : LetterOrDigit(queryText[p][i]))
                => queryHash[p] # generateTextHash(<<>>)
            /\ queryHash[p] = queryHash[q]
                => SpokenWords(queryText[p]) = SpokenWords(queryText[q])

\* The same of queries in ASCII letters, digits and spaces.
AsciiWords ==
    \A p, q \in Procs :
        (/\ queryHash[p] # NoHash /\ queryHash[q] # NoHash
         /\ \A r \in {p, q} : \A i \in DOMAIN queryText[r] :
                queryText[r][i] \notin Devanagari)
        =>  /\ (\E i \in DOMAIN queryText[p] : LetterOrDigit(queryText[p][i]))
                => queryHash[p] # generateTextHash(<<>>)
            /\ queryHash[p] = queryHash[q]
                => SpokenWords(queryText[p]) = SpokenWords(queryText[q])

====
